---- MODULE Spec2Model ----
(***************************************************************************)
(* A model of backend/server.py of the GST invoice billing backend: the    *)
(* two core functions calculate_invoice_totals and number_to_words, and    *)
(* the shop and invoice routes over the db.shops and db.invoices           *)
(* collections.                                                            *)
(*                                                                         *)
(* Representation.                                                         *)
(*  - A Python float is an IEEE 754 double, held as sign, mantissa and      *)
(*    binary exponent; the mantissa is a natural number of any size, a      *)
(*    sequence of limbs.  Multiplication, division, addition and            *)
(*    subtraction round to the nearest double as the hardware does, so      *)
(*    that the order of additions and the representation error of a         *)
(*    literal such as 0.045 show in the results as they do in the code.     *)
(*  - The 2-decimal fields a handler returns are whole numbers of paise    *)
(*    (hundredths of a rupee); final_amount is a whole number of rupees.   *)
(*  - A Python str is the sequence of its pieces: an invoice number is a   *)
(*    sequence of characters, an amount in words is a sequence of words    *)
(*    and of single blanks " ", so that concatenation is \o and strip()    *)
(*    and the blanks the code inserts are modelled as they are written.    *)
(*  - A Python evaluation either returns or raises: it is a record         *)
(*    [exc, val], exc = "none" when it returned val.                       *)
(***************************************************************************)
EXTENDS Integers, Sequences, FiniteSets, TLC

VARIABLES
    invoices,   \* db.invoices: the stored invoice documents, in insertion order
    shops,      \* db.shops: the stored shop documents, in insertion order
    nextId,     \* the next fresh id (uuid.uuid4) handed to an Invoice or a shop
    request,    \* the last request handled
    response,   \* the response of the last request handled
    created,    \* history: number of create_invoice requests handled
    deleted,    \* history: number of successful delete_invoice requests
    removed,    \* history: the ids delete_invoice has removed
    issued,     \* history: the invoice numbers create_invoice has assigned, in order
    clients,    \* the create_invoice requests in flight, each at its await
    products,   \* input of calculate_invoice_totals
    totals,     \* what calculate_invoice_totals returned or raised for products
    num,        \* input of number_to_words
    words,      \* what number_to_words returned for num
    pc          \* position of the pure-function harness: "input" or "done"

\* the collections and the request in hand
dbVars == <<invoices, shops, nextId, request, response>>

\* the history of the invoice routes
historyVars == <<created, deleted, removed, issued>>

\* the harness of the two pure functions
coreVars == <<products, totals, num, words, pc>>

vars == <<invoices, shops, nextId, request, response, created, deleted, removed,
          issued, clients, products, totals, num, words, pc>>

-----------------------------------------------------------------------------
(* Bounds of the model *)

\* longest sequence of line items given to calculate_invoice_totals
MaxItems == 2
\* longest sequence of line items whose reorderings are compared
MaxOrdered == 3
\* create_invoice requests in a run of the store with varied products
MaxInvoices == 2
\* create_shop requests in a run of the store
MaxShops == 1
\* create_invoice requests in a run of the numbering specification
MaxNumbered == 11
\* successful delete_invoice requests in a run of the numbering specification
MaxDeletes == 1
\* create_invoice requests in flight at once
MaxClients == 2
\* number_to_words is applied to every integer of -MaxNegative .. MaxSmall
MaxSmall == 1100
MaxNegative == 3

-----------------------------------------------------------------------------
(* Python values *)

Return(v) == [exc |-> "none", val |-> v]
Raise(e) == [exc |-> e, val |-> <<>>]

\* list[i] of Python: a negative index counts from the end, an index outside
\* -len .. len-1 raises IndexError
Index(list, i) ==
    IF i >= 0 /\ i < Len(list) THEN Return(list[i + 1])
    ELSE IF i < 0 /\ i >= -Len(list) THEN Return(list[Len(list) + i + 1])
    ELSE Raise("IndexError")

IsBlank(t) == t = " "

RECURSIVE lstrip(_)
lstrip(s) == IF s # <<>> /\ IsBlank(Head(s)) THEN lstrip(Tail(s)) ELSE s

RECURSIVE rstrip(_)
rstrip(s) ==
    IF s # <<>> /\ IsBlank(s[Len(s)]) THEN rstrip(SubSeq(s, 1, Len(s) - 1)) ELSE s

\* str.strip()
strip(s) == rstrip(lstrip(s))

Digits == <<"0", "1", "2", "3", "4", "5", "6", "7", "8", "9">>

\* str(n) of an int n >= 0, as the f-string f"INV{next_num}" formats it
RECURSIVE str(_)
str(n) ==
    IF n < 10 THEN <<Digits[n + 1]>>
    ELSE str(n \div 10) \o <<Digits[(n % 10) + 1]>>

DigitValue(c) == CHOOSE d \in 0..9 : Digits[d + 1] = c

IsDigit(c) == \E d \in 0..9 : Digits[d + 1] = c

RECURSIVE ParseDigits(_, _)
ParseDigits(s, acc) ==
    IF s = <<>> THEN acc
    ELSE ParseDigits(Tail(s), acc * 10 + DigitValue(Head(s)))

\* int(s) of a str s: the decimal value, ValueError when s is no numeral
int_str(s) ==
    IF s # <<>> /\ \A i \in 1..Len(s) : IsDigit(s[i])
    THEN Return(ParseDigits(s, 0))
    ELSE Raise("ValueError")

-----------------------------------------------------------------------------
(* Natural numbers of any size: the sequence of the limbs base Base, least   *)
(* significant first, no zero limb on top (zero is the empty sequence)       *)

LimbBits == 15
Base == 2 ^ LimbBits

RECURSIVE Trim(_)
Trim(a) == IF a # <<>> /\ a[Len(a)] = 0 THEN Trim(SubSeq(a, 1, Len(a) - 1)) ELSE a

RECURSIVE Big(_)
Big(n) == IF n = 0 THEN <<>> ELSE <<n % Base>> \o Big(n \div Base)

\* the value of a number small enough for an integer of the model
RECURSIVE Small(_)
Small(a) == IF a = <<>> THEN 0 ELSE a[1] + (Base * Small(Tail(a)))

Limb(a, i) == IF i <= Len(a) THEN a[i] ELSE 0

RECURSIVE AddFrom(_, _, _, _)
AddFrom(a, b, i, carry) ==
    IF i > Len(a) /\ i > Len(b) THEN Big(carry)
    ELSE LET s == Limb(a, i) + Limb(b, i) + carry
         IN  <<s % Base>> \o AddFrom(a, b, i + 1, s \div Base)

BigAdd(a, b) == Trim(AddFrom(a, b, 1, 0))

\* a - b for a >= b
RECURSIVE SubFrom(_, _, _, _)
SubFrom(a, b, i, borrow) ==
    IF i > Len(a) THEN <<>>
    ELSE LET d == Limb(a, i) - Limb(b, i) - borrow
         IN  <<d % Base>> \o SubFrom(a, b, i + 1, IF d < 0 THEN 1 ELSE 0)

BigSub(a, b) == Trim(SubFrom(a, b, 1, 0))

RECURSIVE LessFrom(_, _, _)
LessFrom(a, b, i) ==
    IF i = 0 THEN FALSE
    ELSE IF a[i] # b[i] THEN a[i] < b[i]
    ELSE LessFrom(a, b, i - 1)

BigLess(a, b) == IF Len(a) # Len(b) THEN Len(a) < Len(b) ELSE LessFrom(a, b, Len(a))

\* a * k for 0 <= k < Base
RECURSIVE MulSmallFrom(_, _, _, _)
MulSmallFrom(a, k, i, carry) ==
    IF i > Len(a) THEN Big(carry)
    ELSE LET p == (a[i] * k) + carry
         IN  <<p % Base>> \o MulSmallFrom(a, k, i + 1, p \div Base)

BigMulSmall(a, k) == Trim(MulSmallFrom(a, k, 1, 0))

\* a * b, by halving b
RECURSIVE BigMul(_, _)
BigMul(a, b) ==
    IF a = <<>> \/ b = <<>> THEN <<>>
    ELSE IF Len(b) = 1 THEN BigMulSmall(a, b[1])
    ELSE LET half == Len(b) \div 2
             low == BigMul(a, Trim(SubSeq(b, 1, half)))
             high == BigMul(a, SubSeq(b, half + 1, Len(b)))
         IN  BigAdd(low, [i \in 1..half |-> 0] \o high)

\* quotient and remainder of a by k, 0 < k < Base, from the top limb down
RECURSIVE DivSmallFrom(_, _, _, _)
DivSmallFrom(a, k, i, rem) ==
    IF i = 0 THEN [quot |-> <<>>, rem |-> rem]
    ELSE LET cur == (rem * Base) + a[i]
             lower == DivSmallFrom(a, k, i - 1, cur % k)
         IN  [quot |-> Append(lower.quot, cur \div k), rem |-> lower.rem]

TrimQuotient(r) == [quot |-> Trim(r.quot), rem |-> r.rem]

BigDivMod(a, k) == TrimQuotient(DivSmallFrom(a, k, Len(a), 0))

\* a * 2^bits
ShiftLeft(a, bits) ==
    IF a = <<>> THEN <<>>
    ELSE [i \in 1..(bits \div LimbBits) |-> 0] \o BigMulSmall(a, 2 ^ (bits % LimbBits))

\* a div 2^bits, and whether a bit that was dropped was set
Shifted(d, lower) == [quot |-> d.quot, rest |-> d.rem # 0 \/ lower]

ShiftRight(a, bits) ==
    Shifted(BigDivMod(SubSeq(a, (bits \div LimbBits) + 1, Len(a)),
                      2 ^ (bits % LimbBits)),
            \E i \in 1..(bits \div LimbBits) : Limb(a, i) # 0)

RECURSIVE Bits(_)
Bits(n) == IF n = 0 THEN 0 ELSE 1 + Bits(n \div 2)

BitLength(a) == IF a = <<>> THEN 0 ELSE (LimbBits * (Len(a) - 1)) + Bits(a[Len(a)])

Square(a) == BigMul(a, a)

\* 5^n, by squaring
RECURSIVE BigPow5(_)
BigPow5(n) ==
    IF n < 7 THEN Big(5 ^ n)
    ELSE IF n % 2 = 0 THEN Square(BigPow5(n \div 2))
    ELSE BigMulSmall(Square(BigPow5(n \div 2)), 5)

\* a div 2^bits rounded to the nearest, a tie to the even; sticky says that
\* the number a stands for has a fraction below its last bit
RoundLastBit(q, below) ==
    IF q.rest /\ (below \/ (q.quot # <<>> /\ q.quot[1] % 2 = 1))
    THEN BigAdd(q.quot, <<1>>)
    ELSE q.quot

RoundHalves(t, sticky) == RoundLastBit(ShiftRight(t.quot, 1), t.rest \/ sticky)

RoundShift(a, bits, sticky) ==
    IF bits <= 0 THEN ShiftLeft(a, -bits)
    ELSE RoundHalves(ShiftRight(a, bits - 1), sticky)

-----------------------------------------------------------------------------
(* The float of Python: an IEEE 754 double.  A finite double is             *)
(* (-1)^neg * man * 2^exp with man below 2^Precision; every operation       *)
(* returns the double nearest to the exact result, a tie to the even        *)
(* mantissa, and inf beyond the largest double.  Subnormal doubles and the  *)
(* sign of zero are not modelled.                                           *)

Precision == 53
MaxExponent == 1024

Inf(neg) == [cls |-> "inf", neg |-> neg, man |-> <<>>, exp |-> 0]
NaN == [cls |-> "nan", neg |-> FALSE, man |-> <<>>, exp |-> 0]
Zero == [cls |-> "fin", neg |-> FALSE, man |-> <<>>, exp |-> 0]

IsZero(x) == x.cls = "fin" /\ x.man = <<>>

\* the double nearest to (-1)^neg * (n + fraction) * 2^e, 0 <= fraction < 1,
\* fraction > 0 when sticky (n then has more than Precision + 1 bits)
Finite(neg, man, exp) ==
    IF man = <<>> THEN Zero
    ELSE IF BitLength(man) + exp > MaxExponent THEN Inf(neg)
    ELSE [cls |-> "fin", neg |-> neg, man |-> man, exp |-> exp]

Dropping(neg, n, e, sticky, drop) ==
    IF drop > 0 THEN Finite(neg, RoundShift(n, drop, sticky), e + drop)
    ELSE Finite(neg, n, e)

Nearest(neg, n, e, sticky) == Dropping(neg, n, e, sticky, BitLength(n) - Precision)

\* float(n) of an int n
float(n) == Nearest(n < 0, Big(IF n < 0 THEN -n ELSE n), 0, FALSE)

\* a decimal literal mantissa * 10^exp10, as JSON and Python source write it
Dec(mantissa, exp10) == [mantissa |-> mantissa, exp10 |-> exp10]

GuardBits == 64

\* the double a decimal literal denotes: 10^k is 5^k * 2^k
Quotient(neg, d, e) == Nearest(neg, d.quot, e - GuardBits, d.rem # 0)

Scaled(neg, n, exp10) ==
    IF exp10 >= 0 THEN Nearest(neg, BigMul(BigPow5(exp10), n), exp10, FALSE)
    ELSE Quotient(neg, BigDivMod(ShiftLeft(n, GuardBits), 5 ^ (-exp10)), exp10)

FromDecimal(lit) ==
    Scaled(lit.mantissa < 0,
           Big(IF lit.mantissa < 0 THEN -lit.mantissa ELSE lit.mantissa),
           lit.exp10)

\* the position of the top bit of a finite x # 0: 2^(Top - 1) <= |x| < 2^Top
Top(x) == BitLength(x.man) + x.exp

FMul(x, y) ==
    IF x.cls = "nan" \/ y.cls = "nan" THEN NaN
    ELSE IF x.cls = "inf" \/ y.cls = "inf"
         THEN IF IsZero(x) \/ IsZero(y) THEN NaN ELSE Inf(x.neg # y.neg)
    ELSE Nearest(x.neg # y.neg, BigMul(x.man, y.man), x.exp + y.exp, FALSE)

\* x / k for an int k, 0 < k < Base
FDiv(x, k) ==
    IF x.cls # "fin" THEN x
    ELSE Quotient(x.neg, BigDivMod(ShiftLeft(x.man, GuardBits), k), x.exp)

FNeg(x) == IF x.cls = "nan" \/ IsZero(x) THEN x ELSE [x EXCEPT !.neg = ~x.neg]

Min(m, n) == IF m < n THEN m ELSE n

\* the sum of (-1)^xneg * a * 2^e and (-1)^yneg * b * 2^e
Aligned(xneg, a, yneg, b, e) ==
    IF xneg = yneg THEN Nearest(xneg, BigAdd(a, b), e, FALSE)
    ELSE IF BigLess(a, b) THEN Nearest(yneg, BigSub(b, a), e, FALSE)
    ELSE Nearest(xneg, BigSub(a, b), e, FALSE)

FAdd(x, y) ==
    IF x.cls = "nan" \/ y.cls = "nan" THEN NaN
    ELSE IF x.cls = "inf" /\ y.cls = "inf"
         THEN IF x.neg = y.neg THEN x ELSE NaN
    ELSE IF x.cls = "inf" THEN x
    ELSE IF y.cls = "inf" THEN y
    ELSE IF IsZero(x) THEN y
    ELSE IF IsZero(y) THEN x
    ELSE IF Top(x) - Top(y) > Precision + 2 THEN x
    ELSE IF Top(y) - Top(x) > Precision + 2 THEN y
    ELSE Aligned(x.neg, ShiftLeft(x.man, x.exp - Min(x.exp, y.exp)),
                 y.neg, ShiftLeft(y.man, y.exp - Min(x.exp, y.exp)),
                 Min(x.exp, y.exp))

FSub(x, y) == FAdd(x, FNeg(y))

\* the integer nearest to x * 10^digits, a tie to the even, for a finite x
\* whose result is small: the decimal rounding of round()
Signed(neg, n) == IF neg THEN -n ELSE n

RoundedUnits(x, digits) ==
    Signed(x.neg, Small(RoundShift(BigMulSmall(x.man, 10 ^ digits), -x.exp, FALSE)))

\* round(x) with a tie going away from zero
round_half_up(x) ==
    IF x.cls = "nan" THEN Raise("ValueError")
    ELSE IF x.cls = "inf" THEN Raise("OverflowError")
    ELSE Return(Signed(x.neg, Small(RoundShift(x.man, -x.exp, TRUE))))

\* round(x): an int; not defined for nan and inf
round(x) ==
    IF x.cls = "nan" THEN Raise("ValueError")
    ELSE IF x.cls = "inf" THEN Raise("OverflowError")
    ELSE Return(RoundedUnits(x, 0))

\* round(x, 2) of a finite x: the float of 2 decimals, held as its count of
\* hundredths
round2(x) == RoundedUnits(x, 2)
-----------------------------------------------------------------------------
(* ProductItem and the inputs of calculate_invoice_totals *)

\* a ProductItem (its name plays no part in any computation and is left out):
\* quantity an int; unit_rate, discount_percentage and gst_rate floats, each
\* held as the decimal literal that denotes it
ProductItem(q, r, d, g) ==
    [quantity |-> q, unit_rate |-> r, discount_percentage |-> d, gst_rate |-> g]

\* 1e308: twice it, or nine hundredths of it times a hundred, is beyond the
\* largest double
Huge == Dec(1, 308)

GstRates == {5, 12, 18, 28}

\* the line item of the scenario: 2 at 1000.0, 5% discount
ScenarioItem(g) == ProductItem(2, Dec(1000, 0), Dec(5, 0), Dec(g, 0))

\* the line items of the model: a grid, the scenario at each GST rate, and
\* items chosen for what they land on: a gross total halfway between two
\* integers (10.5, 31.5), amounts with a third decimal (0.372, 2.675, 0.475),
\* a negative quantity and a discount above 100, which the core accepts
\* although the data model does not expect them, the amount 4237.29 of the
\* repository's test, and unit rates whose products overflow
Items ==
    {ProductItem(q, r, Dec(0, 0), Dec(g, 0)) :
        q \in {1, 2}, r \in {Dec(4, -1), Dec(100, -1)}, g \in {12, 18}}
    \cup {ScenarioItem(g) : g \in GstRates}
    \cup {ProductItem(1, Dec(100, -1), Dec(0, 0), Dec(5, 0)),
          ProductItem(1, Dec(30, 0), Dec(0, 0), Dec(5, 0)),
          ProductItem(1, Dec(4, -1), Dec(7, 0), Dec(12, 0)),
          ProductItem(-1, Dec(100, -1), Dec(0, 0), Dec(5, 0)),
          ProductItem(1, Dec(100, -1), Dec(150, 0), Dec(12, 0)),
          ProductItem(1, Dec(2675, -3), Dec(0, 0), Dec(18, 0)),
          ProductItem(1, Dec(5, -1), Dec(5, 0), Dec(12, 0)),
          ProductItem(1, Dec(423729, -2), Dec(0, 0), Dec(18, 0)),
          ProductItem(2, Huge, Dec(0, 0), Dec(18, 0)),
          ProductItem(1, Huge, Dec(0, 0), Dec(18, 0))}

\* three items whose taxable values 0.045, 0.09 and 0.99 add up to 1.125, and
\* two more
OrderItems ==
    {ProductItem(1, Dec(5, -2), Dec(10, 0), Dec(12, 0)),
     ProductItem(1, Dec(1, -1), Dec(10, 0), Dec(5, 0)),
     ProductItem(1, Dec(11, -1), Dec(10, 0), Dec(12, 0)),
     ProductItem(2, Dec(100, -1), Dec(0, 0), Dec(18, 0)),
     ProductItem(1, Dec(4, -1), Dec(7, 0), Dec(12, 0))}

SeqsUpTo(S, n) == UNION {[1..k -> S] : k \in 0..n}

-----------------------------------------------------------------------------
(* calculate_invoice_totals *)

\* product.quantity * product.unit_rate
line_amount(product) ==
    FMul(float(product.quantity), FromDecimal(product.unit_rate))

\* the discount taken on the unit rate, whatever the quantity
discount_amount_of_one_unit(product) ==
    FDiv(FMul(FromDecimal(product.unit_rate),
              FromDecimal(product.discount_percentage)), 100)

discount_amount(product) ==
    FDiv(FMul(line_amount(product), FromDecimal(product.discount_percentage)), 100)

taxable_value(product) == FSub(line_amount(product), discount_amount(product))

cgst_rate(product) == FDiv(FromDecimal(product.gst_rate), 2)

sgst_rate(product) == FDiv(FromDecimal(product.gst_rate), 2)

\* the GST amounts of a line, from the taxable_value the loop body has in hand
cgst_amount(taxable, product) == FDiv(FMul(taxable, cgst_rate(product)), 100)

sgst_amount_on_gross_price(taxable, product) ==
    FDiv(FMul(line_amount(product), sgst_rate(product)), 100)

sgst_amount(taxable, product) == FDiv(FMul(taxable, sgst_rate(product)), 100)

\* the three += of the loop body
AddLine(acc, product, taxable) ==
    [total_taxable_value |-> FAdd(acc.total_taxable_value, taxable),
     total_cgst |-> FAdd(acc.total_cgst, cgst_amount(taxable, product)),
     total_sgst |-> FAdd(acc.total_sgst, sgst_amount(taxable, product))]

\* the loop over products: the running totals after the items i .. Len
RECURSIVE Accumulate(_, _, _)
Accumulate(ps, i, acc) ==
    IF i > Len(ps) THEN acc
    ELSE Accumulate(ps, i + 1, AddLine(acc, ps[i], taxable_value(ps[i])))

RunningTotals(ps) ==
    Accumulate(ps, 1, [total_taxable_value |-> Zero, total_cgst |-> Zero,
                       total_sgst |-> Zero])

\* the unrounded total_tax and gross_total of the function body, from the
\* running totals the loop left
total_tax(run) == FAdd(run.total_cgst, run.total_sgst)

gross_total(run) == FAdd(run.total_taxable_value, total_tax(run))

final_amount_half_up(run) == round_half_up(gross_total(run))

final_amount(run) == round(gross_total(run))

round_off(run) == FSub(float(final_amount(run).val), gross_total(run))

\* the statements after the loop: the rounding of line 111 raises, or the
\* dict is returned
AfterLoop(run) ==
    IF final_amount(run).exc # "none" THEN final_amount(run)
    ELSE Return([total_taxable_value |-> round2(run.total_taxable_value),
                 total_cgst |-> round2(run.total_cgst),
                 total_sgst |-> round2(run.total_sgst),
                 total_tax |-> round2(total_tax(run)),
                 round_off |-> round2(round_off(run)),
                 final_amount |-> final_amount(run).val])

calculate_invoice_totals(ps) == AfterLoop(RunningTotals(ps))

NoTotals == [total_taxable_value |-> 0, total_cgst |-> 0, total_sgst |-> 0,
             total_tax |-> 0, round_off |-> 0, final_amount |-> 0]

-----------------------------------------------------------------------------
(* number_to_words *)

ones == << <<>>, <<"One">>, <<"Two">>, <<"Three">>, <<"Four">>, <<"Five">>,
           <<"Six">>, <<"Seven">>, <<"Eight">>, <<"Nine">> >>

teens == << <<"Ten">>, <<"Eleven">>, <<"Twelve">>, <<"Thirteen">>, <<"Fourteen">>,
            <<"Fifteen">>, <<"Sixteen">>, <<"Seventeen">>, <<"Eighteen">>,
            <<"Nineteen">> >>

tens == << <<>>, <<>>, <<"Twenty">>, <<"Thirty">>, <<"Forty">>, <<"Fifty">>,
           <<"Sixty">>, <<"Seventy">>, <<"Eighty">>, <<"Ninety">> >>

RupeesOnly == <<" ", "Rupees", " ", "Only">>           \* " Rupees Only"
ZeroRupeesOnly == <<"Zero", " ", "Rupees", " ", "Only">>
AmountCalculationError == <<"Amount", " ", "calculation", " ", "error">>

\* the first of the evaluations that raised, or Return(v) when none did
Sequenced(evals, v) ==
    IF \E i \in 1..Len(evals) : evals[i].exc # "none"
    THEN evals[CHOOSE i \in 1..Len(evals) :
                  /\ evals[i].exc # "none"
                  /\ \A j \in 1..(i - 1) : evals[j].exc = "none"]
    ELSE Return(v)

\* convert_hundreds with its second test written n > 20
convert_hundreds_teens_from_11(n) ==
    LET hundred == IF n >= 100 THEN Index(ones, n \div 100) ELSE Return(<<>>)
        result1 == IF n >= 100 THEN hundred.val \o <<" ", "Hundred", " ">> ELSE <<>>
        n1 == IF n >= 100 THEN n % 100 ELSE n
        ten == IF n1 > 20 THEN Index(tens, n1 \div 10)
               ELSE IF n1 >= 10 THEN Index(teens, n1 - 10)
               ELSE Return(<<>>)
        result2 == IF n1 >= 10 THEN result1 \o ten.val \o <<" ">> ELSE result1
        n2 == IF n1 > 20 THEN n1 % 10 ELSE IF n1 >= 10 THEN 0 ELSE n1
        one == IF n2 > 0 THEN Index(ones, n2) ELSE Return(<<>>)
        result3 == IF n2 > 0 THEN result2 \o one.val \o <<" ">> ELSE result2
    IN  Sequenced(<<hundred, ten, one>>, strip(result3))

\* the inner function convert_hundreds(n): result and n after each of its
\* three statements
convert_hundreds(n) ==
    LET hundred == IF n >= 100 THEN Index(ones, n \div 100) ELSE Return(<<>>)
        result1 == IF n >= 100 THEN hundred.val \o <<" ", "Hundred", " ">> ELSE <<>>
        n1 == IF n >= 100 THEN n % 100 ELSE n
        ten == IF n1 >= 20 THEN Index(tens, n1 \div 10)
               ELSE IF n1 >= 10 THEN Index(teens, n1 - 10)
               ELSE Return(<<>>)
        result2 == IF n1 >= 10 THEN result1 \o ten.val \o <<" ">> ELSE result1
        n2 == IF n1 >= 20 THEN n1 % 10 ELSE IF n1 >= 10 THEN 0 ELSE n1
        one == IF n2 > 0 THEN Index(ones, n2) ELSE Return(<<>>)
        result3 == IF n2 > 0 THEN result2 \o one.val \o <<" ">> ELSE result2
    IN  Sequenced(<<hundred, ten, one>>, strip(result3))

\* the branch num < 1000
BelowThousand(n) ==
    LET units == convert_hundreds(n)
    IN  Sequenced(<<units>>, units.val \o RupeesOnly)

\* the branch num < 100000
BelowLakh(n) ==
    LET thousands == n \div 1000
        remainder == n % 1000
        high == convert_hundreds(thousands)
        low == IF remainder > 0 THEN convert_hundreds(remainder) ELSE Return(<<>>)
        result == high.val \o <<" ", "Thousand", " ">>
                  \o (IF remainder > 0 THEN low.val \o <<" ">> ELSE <<>>)
    IN  Sequenced(<<high, low>>, strip(result) \o RupeesOnly)

\* the else branch with the test remainder >= 1000 left out
FromLakh_always_thousand(n) ==
    LET lakhs == n \div 100000
        remainder == n % 100000
        top == convert_hundreds(lakhs)
        thousands == remainder \div 1000
        high == convert_hundreds(thousands)
        remainder2 == remainder % 1000
        low == IF remainder2 > 0 THEN convert_hundreds(remainder2) ELSE Return(<<>>)
        result == top.val \o <<" ", "Lakh", " ">>
                  \o high.val \o <<" ", "Thousand", " ">>
                  \o (IF remainder2 > 0 THEN low.val \o <<" ">> ELSE <<>>)
    IN  Sequenced(<<top, high, low>>, strip(result) \o RupeesOnly)

\* the else branch: num >= 100000
FromLakh(n) ==
    LET lakhs == n \div 100000
        remainder == n % 100000
        top == convert_hundreds(lakhs)
        thousands == remainder \div 1000
        high == IF remainder >= 1000 THEN convert_hundreds(thousands) ELSE Return(<<>>)
        remainder2 == IF remainder >= 1000 THEN remainder % 1000 ELSE remainder
        low == IF remainder2 > 0 THEN convert_hundreds(remainder2) ELSE Return(<<>>)
        result == top.val \o <<" ", "Lakh", " ">>
                  \o (IF remainder >= 1000
                      THEN high.val \o <<" ", "Thousand", " ">> ELSE <<>>)
                  \o (IF remainder2 > 0 THEN low.val \o <<" ">> ELSE <<>>)
    IN  Sequenced(<<top, high, low>>, strip(result) \o RupeesOnly)

\* the values number_to_words is given: an int, a str, None
IntValue(n) == [type |-> "int", int |-> n, str |-> <<>>]
StrValue(s) == [type |-> "str", int |-> 0, str |-> s]
NoneValue == [type |-> "NoneType", int |-> 0, str |-> <<>>]

\* int(num)
int(v) ==
    CASE v.type = "int" -> Return(v.int)
      [] v.type = "str" -> int_str(v.str)
      [] OTHER -> Raise("TypeError")

\* the body of the try statement
TryBody(v) ==
    LET coerced == int(v)
        n == coerced.val
    IN  IF coerced.exc # "none" THEN coerced
        ELSE IF n = 0 THEN Return(ZeroRupeesOnly)
        ELSE IF n < 1000 THEN BelowThousand(n)
        ELSE IF n < 100000 THEN BelowLakh(n)
        ELSE FromLakh(n)

\* a handler except ValueError: in place of the bare except:
ExceptValueError(eval) ==
    IF eval.exc = "ValueError" THEN Return(AmountCalculationError) ELSE eval

\* the bare except: of number_to_words catches whatever the body raised
Except(eval) ==
    IF eval.exc # "none" THEN Return(AmountCalculationError) ELSE eval

number_to_words(v) == Except(TryBody(v))

-----------------------------------------------------------------------------
(* The requests of the model *)

Asha == [name |-> <<"A", "s", "h", "a">>, mobile |-> <<"9", "8">>]
Ravi == [name |-> <<"R", "a", "v", "i">>, mobile |-> <<"7", "1">>]

InvoiceCreate(customer, ps) == [customer_details |-> customer, products |-> ps]

\* the requests of the store specification: no product, the scenario, a
\* negative quantity, a discount above 100, a unit rate of 1e308
Requests ==
    {InvoiceCreate(Asha, <<>>),
     InvoiceCreate(Ravi, <<ScenarioItem(18)>>),
     InvoiceCreate(Asha, <<ProductItem(-1, Dec(100, -1), Dec(0, 0), Dec(5, 0))>>),
     InvoiceCreate(Ravi, <<ProductItem(1, Dec(100, -1), Dec(150, 0), Dec(12, 0))>>),
     InvoiceCreate(Asha, <<ProductItem(2, Huge, Dec(0, 0), Dec(18, 0))>>)}

\* the request of the numbering specification
NumberingRequest ==
    InvoiceCreate(Asha, <<ProductItem(2, Dec(100, -1), Dec(0, 0), Dec(18, 0))>>)

\* calculate_invoice_totals is a function of its argument alone: its value on
\* the products of each request of the model, computed once
totals_of ==
    [ps \in {d.products : d \in Requests \cup {NumberingRequest}} |->
        calculate_invoice_totals(ps)]

-----------------------------------------------------------------------------
(* db.shops, db.invoices and the routes *)

INV == <<"I", "N", "V">>

\* code point of a character of an invoice number
Ord(c) ==
    CASE c = "I" -> 73
      [] c = "N" -> 78
      [] c = "V" -> 86
      [] OTHER -> 48 + DigitValue(c)

\* a < b as the store orders two strings: by the first character in which
\* they differ, a proper prefix before the longer string
RECURSIVE StrLess(_, _)
StrLess(a, b) ==
    IF b = <<>> THEN FALSE
    ELSE IF a = <<>> THEN TRUE
    ELSE IF Head(a) # Head(b) THEN Ord(Head(a)) < Ord(Head(b))
    ELSE StrLess(Tail(a), Tail(b))

StartsWith(s, prefix) ==
    Len(s) >= Len(prefix) /\ SubSeq(s, 1, Len(prefix)) = prefix

\* s.replace(old, ""): every occurrence of old, from the left, removed
RECURSIVE Remove(_, _)
Remove(s, old) ==
    IF s = <<>> THEN <<>>
    ELSE IF StartsWith(s, old) THEN Remove(SubSeq(s, Len(old) + 1, Len(s)), old)
    ELSE <<Head(s)>> \o Remove(Tail(s), old)


\* db.invoices.find_one(sort=[("invoice_number", -1)]): a document whose
\* invoice_number no other document's exceeds (None when there is none)
HasInvoices == invoices # <<>>

last_invoice ==
    invoices[CHOOSE i \in 1..Len(invoices) :
                \A j \in 1..Len(invoices) :
                    ~StrLess(invoices[i].invoice_number, invoices[j].invoice_number)]

\* a number taken from a counter that every request in flight has advanced
next_num_reserved ==
    Return(1 + Len(invoices)
             + Cardinality({c \in DOMAIN clients : clients[c].pc = "insert"}))

\* lines 207-212: the number after the last invoice's, 1 for an empty store
next_num ==
    IF HasInvoices
    THEN LET last_num == int_str(Remove(last_invoice.invoice_number, INV))
         IN  Sequenced(<<last_num>>, last_num.val + 1)
    ELSE Return(1)

Request(op, arg) == [op |-> op, arg |-> arg]

Ok(body) == [status |-> 200, body |-> body]
HttpError(code, detail) == [status |-> code, body |-> detail]
NoResponse == [status |-> 0, body |-> <<>>]

\* an exception no handler catches: the server answers 500
InternalServerError == HttpError(500, "Internal Server Error")

\* line 218, with the total_tax given to the converter
amount_in_words_of_tax(tot) == number_to_words(IntValue(tot.total_tax \div 100))

\* line 218: amount_in_words = number_to_words(totals["final_amount"])
amount_in_words(tot) == number_to_words(IntValue(tot.final_amount))

\* the Invoice create_invoice builds from the request: the fields of the
\* request, the invoice number, the totals, the words, and the defaults id
\* and created_at of the Invoice model
InvoiceDoc(id, invoice_number, invoice_data, tot, words_of_amount, now) ==
    [id |-> id,
     invoice_number |-> invoice_number,
     customer_details |-> invoice_data.customer_details,
     products |-> invoice_data.products,
     total_taxable_value |-> tot.total_taxable_value,
     total_cgst |-> tot.total_cgst,
     total_sgst |-> tot.total_sgst,
     total_tax |-> tot.total_tax,
     round_off |-> tot.round_off,
     final_amount |-> tot.final_amount,
     amount_in_words |-> words_of_amount,
     created_at |-> now]

\* lines 206-225 of create_invoice, from the answer of find_one to the
\* Invoice about to be inserted: the Invoice, or what was raised on the way
invoice_of(invoice_data, number, tot, words_of_amount) ==
    IF words_of_amount.exc # "none" THEN words_of_amount
    ELSE Return(InvoiceDoc(nextId, INV \o str(number), invoice_data, tot,
                           words_of_amount.val, created))

invoice_from(invoice_data, number, tot) ==
    IF number.exc # "none" THEN number
    ELSE IF tot.exc # "none" THEN tot
    ELSE invoice_of(invoice_data, number.val, tot.val, amount_in_words(tot.val))

invoice_obj(invoice_data) ==
    invoice_from(invoice_data, next_num, totals_of[invoice_data.products])

\* POST /invoices, with no other request between its find_one and its insert_one
answer_create(invoice_data, built) ==
    /\ request' = Request("create_invoice", invoice_data)
    /\ created' = created + 1
    /\ IF built.exc # "none"
       THEN /\ response' = InternalServerError
            /\ UNCHANGED <<invoices, nextId, issued>>
       ELSE /\ invoices' = Append(invoices, built.val)
            /\ nextId' = nextId + 1
            /\ issued' = Append(issued, built.val.invoice_number)
            /\ response' = Ok(built.val)
    /\ UNCHANGED <<shops, deleted, removed, clients>>
    /\ UNCHANGED coreVars

create_invoice(invoice_data) == answer_create(invoice_data, invoice_obj(invoice_data))

\* POST /invoices up to its await of insert_one: client c has the Invoice built
await_insert(c, invoice_data, built) ==
    /\ clients[c].pc = "start"
    /\ request' = Request("create_invoice", invoice_data)
    /\ created' = created + 1
    /\ IF built.exc # "none"
       THEN /\ response' = InternalServerError
            /\ clients' = [clients EXCEPT ![c].pc = "done"]
            /\ UNCHANGED nextId
       ELSE /\ clients' = [clients EXCEPT ![c] =
                              [pc |-> "insert", invoice |-> <<built.val>>,
                               seen |-> invoices]]
            /\ nextId' = nextId + 1
            /\ UNCHANGED response
    /\ UNCHANGED <<invoices, shops, deleted, removed, issued>>
    /\ UNCHANGED coreVars

find_one(c, invoice_data) == await_insert(c, invoice_data, invoice_obj(invoice_data))

\* POST /invoices from its insert_one to the return
insert_one(c) ==
    /\ clients[c].pc = "insert"
    /\ invoices' = Append(invoices, clients[c].invoice[1])
    /\ issued' = Append(issued, clients[c].invoice[1].invoice_number)
    /\ response' = Ok(clients[c].invoice[1])
    /\ clients' = [clients EXCEPT ![c].pc = "done"]
    /\ UNCHANGED <<shops, nextId, request, created, deleted, removed>>
    /\ UNCHANGED coreVars

Matching(invoice_id) == {i \in 1..Len(invoices) : invoices[i].id = invoice_id}

Without(s, i) == SubSeq(s, 1, i - 1) \o SubSeq(s, i + 1, Len(s))

\* the documents of docs, the latest created_at first: sort("created_at", -1)
RECURSIVE by_created_at_descending(_)
by_created_at_descending(docs) ==
    IF docs = <<>> THEN <<>>
    ELSE LET latest == CHOOSE i \in 1..Len(docs) :
                           \A j \in 1..Len(docs) :
                               \/ docs[j].created_at < docs[i].created_at
                               \/ (docs[j].created_at = docs[i].created_at /\ i <= j)
         IN  <<docs[latest]>> \o by_created_at_descending(Without(docs, latest))

\* cursor.skip(skip).limit(limit)
Page(docs, skip, limit) ==
    SubSeq(docs, skip + 1, IF skip + limit < Len(docs) THEN skip + limit ELSE Len(docs))

\* the default of the limit parameter, and the most search_invoices returns
DefaultLimit == 100

\* GET /invoices
get_invoices(skip, limit) ==
    /\ request' = Request("get_invoices", <<skip, limit>>)
    /\ response' = Ok(Page(by_created_at_descending(invoices), skip, limit))
    /\ UNCHANGED <<invoices, shops, nextId, clients>>
    /\ UNCHANGED historyVars
    /\ UNCHANGED coreVars

\* GET /invoices/{invoice_id}
get_invoice(invoice_id) ==
    /\ request' = Request("get_invoice", invoice_id)
    /\ response' = IF Matching(invoice_id) = {}
                   THEN HttpError(404, "Invoice not found")
                   ELSE Ok(invoices[CHOOSE i \in Matching(invoice_id) : TRUE])
    /\ UNCHANGED <<invoices, shops, nextId, clients>>
    /\ UNCHANGED historyVars
    /\ UNCHANGED coreVars

\* a delete that marks the document instead of removing it
delete_one_marking(docs, invoice_id) ==
    [i \in 1..Len(docs) |->
        IF docs[i].id = invoice_id
        THEN [docs[i] EXCEPT !.amount_in_words = <<"deleted">>]
        ELSE docs[i]]

\* db.invoices.delete_one({"id": invoice_id}): the first match removed
delete_one(docs, invoice_id) ==
    Without(docs, CHOOSE i \in 1..Len(docs) :
                     /\ docs[i].id = invoice_id
                     /\ \A j \in 1..(i - 1) : docs[j].id # invoice_id)

\* delete_invoice without its test of deleted_count
delete_invoice_unchecked(invoice_id) ==
    /\ request' = Request("delete_invoice", invoice_id)
    /\ IF Matching(invoice_id) = {}
       THEN UNCHANGED <<invoices, deleted, removed>>
       ELSE /\ invoices' = delete_one(invoices, invoice_id)
            /\ deleted' = deleted + 1
            /\ removed' = removed \cup {invoice_id}
    /\ response' = Ok("Invoice deleted successfully")
    /\ UNCHANGED <<shops, nextId, created, issued, clients>>
    /\ UNCHANGED coreVars

\* DELETE /invoices/{invoice_id}
delete_invoice(invoice_id) ==
    /\ request' = Request("delete_invoice", invoice_id)
    /\ IF Matching(invoice_id) = {}
       THEN /\ response' = HttpError(404, "Invoice not found")
            /\ UNCHANGED <<invoices, deleted, removed>>
       ELSE /\ invoices' = delete_one(invoices, invoice_id)
            /\ deleted' = deleted + 1
            /\ removed' = removed \cup {invoice_id}
            /\ response' = Ok("Invoice deleted successfully")
    /\ UNCHANGED <<shops, nextId, created, issued, clients>>
    /\ UNCHANGED coreVars

\* the letters, for a match that ignores case ("$options": "i")
UpperCase == <<"A", "B", "C", "D", "E", "F", "G", "H", "I", "J", "K", "L", "M",
               "N", "O", "P", "Q", "R", "S", "T", "U", "V", "W", "X", "Y", "Z">>
LowerCase == <<"a", "b", "c", "d", "e", "f", "g", "h", "i", "j", "k", "l", "m",
               "n", "o", "p", "q", "r", "s", "t", "u", "v", "w", "x", "y", "z">>

\* the lower-case letter of each upper-case letter
Lower == [c \in {UpperCase[k] : k \in 1..Len(UpperCase)} |->
             LowerCase[CHOOSE k \in 1..Len(UpperCase) : UpperCase[k] = c]]

FoldAll(s) == [k \in 1..Len(s) |-> IF s[k] \in DOMAIN Lower THEN Lower[s[k]] ELSE s[k]]

\* {"$regex": query, "$options": "i"} for a query of letters and digits: the
\* field has the query somewhere in it, case ignored
RegexMatch(field, query) ==
    LET folded == FoldAll(field)
        wanted == FoldAll(query)
    IN  \E k \in 0..(Len(field) - Len(query)) :
            SubSeq(folded, k + 1, k + Len(query)) = wanted

Found(docs, query) ==
    SelectSeq(docs, LAMBDA doc :
        \/ RegexMatch(doc.customer_details.name, query)
        \/ RegexMatch(doc.customer_details.mobile, query)
        \/ RegexMatch(doc.invoice_number, query))

\* GET /invoices/search/{query}
search_invoices(query) ==
    /\ request' = Request("search_invoices", query)
    /\ response' = Ok(Page(by_created_at_descending(Found(invoices, query)),
                           0, DefaultLimit))
    /\ UNCHANGED <<invoices, shops, nextId, clients>>
    /\ UNCHANGED historyVars
    /\ UNCHANGED coreVars

\* the ShopDetails create_shop builds from the request
ShopDoc(id, shop) == [id |-> id, name |-> shop.name, gst_number |-> shop.gst_number]

\* POST /shop
create_shop(shop) ==
    LET shop_obj == ShopDoc(nextId, shop)
    IN  /\ request' = Request("create_shop", shop)
        /\ shops' = Append(shops, shop_obj)
        /\ nextId' = nextId + 1
        /\ response' = Ok(shop_obj)
        /\ UNCHANGED <<invoices, clients>>
        /\ UNCHANGED historyVars
        /\ UNCHANGED coreVars

\* GET /shop
get_shops ==
    /\ request' = Request("get_shops", <<>>)
    /\ response' = Ok(Page(shops, 0, DefaultLimit))
    /\ UNCHANGED <<invoices, shops, nextId, clients>>
    /\ UNCHANGED historyVars
    /\ UNCHANGED coreVars

-----------------------------------------------------------------------------
(* The specifications *)

InitStore ==
    /\ invoices = <<>>
    /\ shops = <<>>
    /\ nextId = 1
    /\ request = Request("none", <<>>)
    /\ response = NoResponse
    /\ created = 0
    /\ deleted = 0
    /\ removed = {}
    /\ issued = <<>>

InitCore ==
    /\ products = <<>> /\ totals = Return(NoTotals)
    /\ num = IntValue(0) /\ words = Return(<<>>)

Ids == 1..(MaxInvoices + MaxShops)

\* The store: sequential requests to the routes
Init ==
    /\ InitStore
    /\ InitCore
    /\ clients = <<>>
    /\ pc = "idle"

CreateInvoice == \E d \in Requests : created < MaxInvoices /\ create_invoice(d)
\* the first page with the default limit, and a page of one after a skip of one
GetInvoices ==
    \E page \in {<<0, DefaultLimit>>, <<1, 1>>} : get_invoices(page[1], page[2])
GetInvoice == \E id \in Ids : get_invoice(id)
DeleteInvoice == \E id \in Ids : delete_invoice(id)
SearchInvoices ==
    \E query \in {<<"i", "n", "v", "1">>, <<"a", "s", "h">>} : search_invoices(query)
CreateShop ==
    /\ Len(shops) < MaxShops
    /\ create_shop([name |-> <<"S">>, gst_number |-> <<"2", "7">>])
GetShops == get_shops

Next ==
    \/ CreateInvoice
    \/ GetInvoices
    \/ GetInvoice
    \/ DeleteInvoice
    \/ SearchInvoices
    \/ CreateShop
    \/ GetShops

Spec == Init /\ [][Next]_vars

\* Numbering: long runs of create_invoice, with few deletions
CreateNumbered == created < MaxNumbered /\ create_invoice(NumberingRequest)
DeleteNumbered ==
    \E id \in 1..MaxNumbered : deleted < MaxDeletes /\ delete_invoice(id)

NextNumbering == CreateNumbered \/ DeleteNumbered

SpecNumbering == Init /\ [][NextNumbering]_vars

\* Concurrent submissions: MaxClients create_invoice requests, each of them
\* suspended at its two awaits, find_one and insert_one
InitConcurrent ==
    /\ InitStore
    /\ InitCore
    /\ clients = [c \in 1..MaxClients |->
                     [pc |-> "start", invoice |-> <<>>, seen |-> <<>>]]
    /\ pc = "idle"

FindOne == \E c \in DOMAIN clients : \E d \in Requests : find_one(c, d)
InsertOne == \E c \in DOMAIN clients : insert_one(c)

NextConcurrent == FindOne \/ InsertOne

SpecConcurrent == InitConcurrent /\ [][NextConcurrent]_vars

\* calculate_invoice_totals applied to every sequence of up to MaxItems items
InitTotals ==
    /\ InitStore
    /\ clients = <<>>
    /\ products \in SeqsUpTo(Items, MaxItems) /\ totals = Return(NoTotals)
    /\ num = IntValue(0) /\ words = Return(<<>>)
    /\ pc = "input"

CalculateTotals ==
    /\ pc = "input"
    /\ totals' = calculate_invoice_totals(products)
    /\ pc' = "done"
    /\ UNCHANGED <<products, num, words, clients>>
    /\ UNCHANGED dbVars
    /\ UNCHANGED historyVars

NextTotals == CalculateTotals

SpecTotals == InitTotals /\ [][NextTotals]_vars

\* calculate_invoice_totals applied to every sequence of up to MaxOrdered of
\* the items whose sums depend on the order of addition
InitOrder ==
    /\ InitStore
    /\ clients = <<>>
    /\ products \in SeqsUpTo(OrderItems, MaxOrdered) /\ totals = Return(NoTotals)
    /\ num = IntValue(0) /\ words = Return(<<>>)
    /\ pc = "input"

SpecOrder == InitOrder /\ [][NextTotals]_vars

\* number_to_words applied to ints small and large, to strs and to None
LakhParts == {0, 1, 7, 10, 19, 20, 45, 99, 100, 110, 999, 1000, 1234, 20000}
ThousandParts == {0, 1, 9, 10, 15, 20, 23, 60, 99}
HundredParts == {0, 1, 9, 10, 11, 19, 20, 21, 99, 100, 101, 110, 119, 120, 456, 999}

Amounts ==
    (-MaxNegative .. MaxSmall)
    \cup {l * 100000 + t * 1000 + h :
             l \in LakhParts, t \in ThousandParts, h \in HundredParts}
    \cup {-1000, -100000}

Inputs ==
    {IntValue(n) : n \in Amounts}
    \cup {StrValue(<<"1", "2">>), StrValue(<<"a", "b", "c">>), StrValue(<<>>), NoneValue}

InitWords ==
    /\ InitStore
    /\ clients = <<>>
    /\ products = <<>> /\ totals = Return(NoTotals)
    /\ num \in Inputs /\ words = Return(<<>>)
    /\ pc = "input"

ConvertToWords ==
    /\ pc = "input"
    /\ words' = number_to_words(num)
    /\ pc' = "done"
    /\ UNCHANGED <<products, totals, num, clients>>
    /\ UNCHANGED dbVars
    /\ UNCHANGED historyVars

NextWords == ConvertToWords

SpecWords == InitWords /\ [][NextWords]_vars

-----------------------------------------------------------------------------
(* Properties of the invoice numbering *)

\* the integer part of an invoice number: "INV123" -> 123
IntegerPart(invoice_number) == ParseDigits(Remove(invoice_number, INV), 0)

\* C1: from an empty store, in a run of create_invoice calls with no
\* deletion, the k-th call stores and returns the invoice number "INV" + k,
\* for every k >= 1.
C1_KthCreateIsINVk ==
    deleted = 0 =>
        \A k \in 1..created :
            /\ k <= Len(issued)
            /\ issued[k] = INV \o str(k)
            /\ invoices[k].invoice_number = INV \o str(k)

\* C2: over any sequence of create_invoice and delete_invoice calls, the
\* integer part of the number a create_invoice assigns is strictly greater
\* than that of every number assigned before it.
C2_NumbersStrictlyIncrease ==
    \A i \in 1..Len(issued) : \A j \in 1..Len(issued) :
        i < j => IntegerPart(issued[i]) < IntegerPart(issued[j])

-----------------------------------------------------------------------------
(* Properties of calculate_invoice_totals *)

\* calculate_invoice_totals has returned: its six fields are totals.val
Returned == pc = "done" /\ totals.exc = "none"

GstRatesOf(ps) == {ps[i].gst_rate : i \in 1..Len(ps)}

\* C3: for every sequence of line items the returned total_cgst equals the
\* returned total_sgst.
C3_CgstEqualsSgst ==
    Returned => totals.val.total_cgst = totals.val.total_sgst

\* two items of different gst_rate, both discounted, with tax to pay
C3_Witness ==
    /\ Returned
    /\ Len(products) = 2
    /\ Cardinality(GstRatesOf(products)) = 2
    /\ \A i \in 1..Len(products) : products[i].discount_percentage.mantissa > 0
    /\ totals.val.total_cgst > 0
    /\ totals.val.total_cgst = totals.val.total_sgst

\* C4: for every sequence of line items the returned total_tax equals the
\* returned total_cgst plus the returned total_sgst, exactly.
C4_TaxIsSumOfComponents ==
    Returned => totals.val.total_tax = totals.val.total_cgst + totals.val.total_sgst

\* C5: for every sequence of line items the returned round_off equals
\* final_amount minus (returned total_taxable_value + returned total_tax).
C5_RoundOffOnReturnedFields ==
    Returned =>
        totals.val.round_off =
            (100 * totals.val.final_amount)
                - (totals.val.total_taxable_value + totals.val.total_tax)

\* x < y for two finite doubles: the sign of the difference, which is never
\* rounded to zero
FLess(x, y) == FSub(x, y).neg

FAbs(x) == [x EXCEPT !.neg = FALSE]

FEqual(x, y) == ~FLess(x, y) /\ ~FLess(y, x)

Half == FDiv(float(1), 2)

\* final_amount minus the unrounded gross_total; the difference is exact when
\* it is at most a half
FinalMinusGross ==
    FSub(float(totals.val.final_amount), gross_total(RunningTotals(products)))

\* C6: final_amount is an integer nearest to the unrounded gross_total
\* (at most half a rupee away), and when gross_total lies halfway between two
\* integers final_amount is the even one.
C6_FinalAmountNearestTiesToEven ==
    Returned =>
        /\ ~FLess(Half, FAbs(FinalMinusGross))
        /\ FEqual(FAbs(FinalMinusGross), Half) => totals.val.final_amount % 2 = 0

\* a gross_total halfway between two integers that is rounded down to the even one
C6_Witness ==
    /\ Returned
    /\ products # <<>>
    /\ FEqual(FinalMinusGross, FNeg(Half))
    /\ totals.val.final_amount % 2 = 0

-----------------------------------------------------------------------------
(* Properties of number_to_words *)

EndsWith(s, suffix) ==
    Len(s) >= Len(suffix) /\ SubSeq(s, Len(s) - Len(suffix) + 1, Len(s)) = suffix

Contains(s, word) == \E i \in 1..Len(s) : s[i] = word

Coercible(v) == int(v).exc = "none"

\* C7: for every non-negative integer amount, of any magnitude, number_to_words
\* returns a rendering that ends in "Rupees Only"; "Amount calculation error" is
\* returned only when the input cannot be coerced to an integer.
C7_NonNegativeIsRendered ==
    pc = "done" =>
        /\ (num.type = "int" /\ num.int >= 0)
               => EndsWith(words.val, <<"Rupees", " ", "Only">>)
        /\ words.val = AmountCalculationError => ~Coercible(num)

\* C8: number_to_words never raises: for every input it returns a string, a
\* rendering ending in " Rupees Only" or the sentinel "Amount calculation error".
C8_NeverRaises ==
    pc = "done" =>
        /\ words.exc = "none"
        /\ \/ words.val = AmountCalculationError
           \/ EndsWith(words.val, RupeesOnly)

\* an input whose conversion raised inside the try statement, and the sentinel returned
C8_Witness ==
    /\ pc = "done"
    /\ TryBody(num).exc \in {"IndexError", "TypeError"}
    /\ words = Return(AmountCalculationError)

NoStrayBlank(s) ==
    /\ s # <<>>
    /\ ~IsBlank(s[1])
    /\ ~IsBlank(s[Len(s)])
    /\ \A i \in 1..(Len(s) - 1) : ~(IsBlank(s[i]) /\ IsBlank(s[i + 1]))

\* C9: a scale segment whose value is zero is left out: for every amount n >= 1
\* the output has "Thousand" only if (n mod 100000) div 1000 > 0, has "Lakh"
\* only if n div 100000 > 0, never has "Zero" and has no doubled or leading
\* blank; "Zero Rupees Only" is the output for n = 0 and for no other n.
C9_ZeroSegmentsOmitted ==
    (pc = "done" /\ Coercible(num)) =>
        LET n == int(num).val
        IN  /\ n >= 1 =>
                /\ Contains(words.val, "Thousand") => (n % 100000) \div 1000 > 0
                /\ Contains(words.val, "Lakh") => n \div 100000 > 0
                /\ ~Contains(words.val, "Zero")
                /\ NoStrayBlank(words.val)
            /\ (words.val = ZeroRupeesOnly) <=> (n = 0)

\* 100000 gives exactly "One Lakh Rupees Only"
C9_Witness ==
    /\ pc = "done"
    /\ num = IntValue(100000)
    /\ words.val = <<"One", " ", "Lakh", " ", "Rupees", " ", "Only">>

\* the reference rendering, as a list of words
OnesWord(d) ==
    <<"One", "Two", "Three", "Four", "Five", "Six", "Seven", "Eight", "Nine">>[d]

TeensWord(n) ==
    CASE n = 10 -> "Ten" [] n = 11 -> "Eleven" [] n = 12 -> "Twelve"
      [] n = 13 -> "Thirteen" [] n = 14 -> "Fourteen" [] n = 15 -> "Fifteen"
      [] n = 16 -> "Sixteen" [] n = 17 -> "Seventeen" [] n = 18 -> "Eighteen"
      [] n = 19 -> "Nineteen"

TensWord(d) ==
    <<"Twenty", "Thirty", "Forty", "Fifty", "Sixty", "Seventy", "Eighty", "Ninety">>[d - 1]

\* the words of 0..999 (none for 0)
HundredsWords(n) ==
    LET rest == n % 100
    IN  (IF n >= 100 THEN <<OnesWord(n \div 100), "Hundred">> ELSE <<>>)
        \o (IF rest >= 20 THEN <<TensWord(rest \div 10)>>
            ELSE IF rest >= 10 THEN <<TeensWord(rest)>>
            ELSE <<>>)
        \o (IF rest >= 20 /\ rest % 10 > 0 THEN <<OnesWord(rest % 10)>>
            ELSE IF rest < 10 /\ rest > 0 THEN <<OnesWord(rest)>>
            ELSE <<>>)

ReferenceWords(n) ==
    LET lakhs == n \div 100000
        thousands == (n % 100000) \div 1000
        units == n % 1000
    IN  (IF lakhs > 0 THEN HundredsWords(lakhs) \o <<"Lakh">> ELSE <<>>)
        \o (IF thousands > 0 THEN HundredsWords(thousands) \o <<"Thousand">> ELSE <<>>)
        \o (IF units > 0 THEN HundredsWords(units) ELSE <<>>)
        \o <<"Rupees", "Only">>

\* the words joined by single blanks
RECURSIVE Joined(_)
Joined(ws) ==
    IF Len(ws) <= 1 THEN ws ELSE <<Head(ws), " ">> \o Joined(Tail(ws))

\* 99,999,999: 999 lakh 99 thousand 999
MaxRendered == (1000 * 100000) - 1

\* C10: for every integer n with 1 <= n <= 99,999,999, number_to_words(n) is the
\* reference rendering: the words of n div 100000 and "Lakh", the words of
\* (n mod 100000) div 1000 and "Thousand", the words of n mod 1000, each left
\* out when zero, then "Rupees Only", joined by single blanks.
C10_EqualsReference ==
    (pc = "done" /\ num.type = "int" /\ num.int >= 1 /\ num.int <= MaxRendered) =>
        words = Return(Joined(ReferenceWords(num.int)))

\* 123456 gives "One Lakh Twenty Three Thousand Four Hundred Fifty Six Rupees Only"
C10_Witness ==
    /\ pc = "done"
    /\ num = IntValue(123456)
    /\ words.val = <<"One", " ", "Lakh", " ", "Twenty", " ", "Three", " ",
                     "Thousand", " ", "Four", " ", "Hundred", " ", "Fifty", " ",
                     "Six", " ", "Rupees", " ", "Only">>

-----------------------------------------------------------------------------
(* The totals of a single line item, against decimal arithmetic *)

\* the literals of the model have at most three decimals: a literal as a
\* whole number of thousandths
Thousand == 10 * 10 * 10

Thousandth(lit) == lit.mantissa * (10 ^ (lit.exp10 + 3))

Abs(n) == IF n < 0 THEN -n ELSE n

Sign(n) == IF n < 0 THEN -1 ELSE IF n > 0 THEN 1 ELSE 0

\* |a - b| of two natural numbers of any size
Distance(a, b) == IF BigLess(a, b) THEN BigSub(b, a) ELSE BigSub(a, b)

\* a is b to the nearest unit: |a - b| <= unit / 2
WithinHalf(a, b, unit) == ~BigLess(unit, BigMulSmall(Distance(a, b), 2))

\* q*r - q*r*d/100 = q * r * (100 - d) / 100, in units of 1/(100 * 1000 * 1000):
\* its size and its sign
TaxableSize(product) ==
    BigMul(Big(Abs(product.quantity) * Thousandth(product.unit_rate)),
           Big(Abs((100 * Thousand) - Thousandth(product.discount_percentage))))

TaxableSign(product) ==
    Sign(product.quantity) * Sign(Thousandth(product.unit_rate))
        * Sign((100 * Thousand) - Thousandth(product.discount_percentage))

\* a count of paise in units of 1/(100 * 1000 * 1000)
PaiseAsTaxable(paise) == BigMul(Big(Abs(paise)), Big(Thousand * Thousand))

\* taxable * (g/2) / 100, in units of 1/(100 * 1000 * 1000 * 200 * 1000)
HalfTaxSize(product) ==
    BigMul(TaxableSize(product), Big(Thousandth(product.gst_rate)))

PaiseAsHalfTax(paise) == BigMul(PaiseAsTaxable(paise), Big(200 * Thousand))

\* the cgst = sgst of the scenario at each GST rate, in paise: 47.5, 114, 171, 266
ScenarioHalfTax(g) ==
    CASE g = 5 -> 4750 [] g = 12 -> 11400 [] g = 18 -> 17100 [] g = 28 -> 26600

\* C11: for a single line item q, r, d, g the returned total_taxable_value is
\* q*r - q*r*d/100 and total_cgst = total_sgst is that times (g/2)/100, each to
\* 2 decimals (the nearest paise, either one when halfway); q=2, r=1000, d=5,
\* g=18 gives 1900, 171, 171, 342, final_amount 2242, round_off 0, and the same
\* item at g = 5, 12, 28 gives cgst = sgst = 47.5, 114, 266.
C11_SingleItemTotals ==
    (Returned /\ Len(products) = 1) =>
        LET product == products[1]
            t == totals.val
        IN  /\ WithinHalf(PaiseAsTaxable(t.total_taxable_value), TaxableSize(product),
                          PaiseAsTaxable(1))
            /\ Sign(t.total_taxable_value) \in {0, TaxableSign(product)}
            /\ t.total_cgst = t.total_sgst
            /\ WithinHalf(PaiseAsHalfTax(t.total_cgst), HalfTaxSize(product),
                          PaiseAsHalfTax(1))
            /\ Sign(t.total_cgst)
                   \in {0, TaxableSign(product) * Sign(Thousandth(product.gst_rate))}
            /\ product = ScenarioItem(18) =>
                   t = [total_taxable_value |-> 190000, total_cgst |-> 17100,
                        total_sgst |-> 17100, total_tax |-> 34200,
                        round_off |-> 0, final_amount |-> 2242]
            /\ \A g \in GstRates :
                   product = ScenarioItem(g) =>
                       /\ t.total_taxable_value = 190000
                       /\ t.total_cgst = ScenarioHalfTax(g)
                       /\ t.total_sgst = ScenarioHalfTax(g)

\* the scenario's item at 18%, and its totals
C11_Witness ==
    /\ Returned
    /\ products = <<ScenarioItem(18)>>
    /\ totals.val.total_taxable_value = 190000
    /\ totals.val.total_cgst = 17100
    /\ totals.val.final_amount = 2242

-----------------------------------------------------------------------------
(* Properties of the routes *)

Stored == {invoices[i] : i \in 1..Len(invoices)}

StoredIds == {invoices[i].id : i \in 1..Len(invoices)}

Zeros6 == [total_taxable_value |-> 0, total_cgst |-> 0, total_sgst |-> 0,
           total_tax |-> 0, round_off |-> 0, final_amount |-> 0]

\* the six totals an invoice document carries
TotalsIn(invoice) ==
    [total_taxable_value |-> invoice.total_taxable_value,
     total_cgst |-> invoice.total_cgst,
     total_sgst |-> invoice.total_sgst,
     total_tax |-> invoice.total_tax,
     round_off |-> invoice.round_off,
     final_amount |-> invoice.final_amount]

\* C12: calculate_invoice_totals raises no error for any input sequence, and
\* for the empty sequence it returns all totals 0 and final_amount 0, so that
\* create_invoice with no products stores "Zero Rupees Only".
C12_TotalsNeverRaise ==
    /\ request.op = "create_invoice" =>
           /\ totals_of[request.arg.products].exc = "none"
           /\ response.status = 200
    /\ totals_of[<<>>] = Return(Zeros6)
    /\ \A invoice \in Stored :
           invoice.products = <<>> =>
               /\ TotalsIn(invoice) = Zeros6
               /\ invoice.amount_in_words = ZeroRupeesOnly

\* C13: the allocation of the invoice number is not atomic: two create_invoice
\* requests whose find_one were answered from the same contents of the
\* collection (both reads before either insert) both store an invoice with
\* the same invoice_number.
C13_SameReadSameNumber ==
    \A a \in DOMAIN clients : \A b \in DOMAIN clients :
        (/\ a # b
         /\ clients[a].pc = "done" /\ clients[a].invoice # <<>>
         /\ clients[b].pc = "done" /\ clients[b].invoice # <<>>
         /\ clients[a].seen = clients[b].seen)
        => /\ clients[a].invoice[1].invoice_number = clients[b].invoice[1].invoice_number
           /\ clients[a].invoice[1] \in Stored
           /\ clients[b].invoice[1] \in Stored

\* two stored invoices, of two requests, share one invoice_number
C13_Witness ==
    \E i \in 1..Len(invoices) : \E j \in 1..Len(invoices) :
        /\ i # j
        /\ invoices[i].id # invoices[j].id
        /\ invoices[i].invoice_number = invoices[j].invoice_number

\* C14: a stored invoice is never mutated: no step changes a field of an
\* invoice that stays stored, and only create_invoice and delete_invoice
\* change the set of stored invoices.
C14_StoredInvoiceNeverMutated ==
    [][/\ \A i \in 1..Len(invoices) : \A j \in 1..Len(invoices') :
              invoices[i].id = invoices'[j].id => invoices[i] = invoices'[j]
       /\ StoredIds' # StoredIds =>
              request'.op \in {"create_invoice", "delete_invoice"}
       /\ Len(invoices') # Len(invoices) => StoredIds' # StoredIds]_vars

\* an invoice still stored after a later create_invoice, the delete_invoice of
\* that later invoice, a create_shop and a listing
C14_Witness ==
    /\ Len(invoices) = 1
    /\ created = 2
    /\ deleted = 1
    /\ invoices[1].id \notin removed
    /\ shops # <<>>
    /\ request.op = "get_invoices"

HasNegativeQuantity(ps) == \E i \in 1..Len(ps) : ps[i].quantity < 0

\* C15: create_invoice rejects a submission in which a product has a negative
\* quantity: the response is not 200, no invoice is stored and no invoice
\* number is consumed.
C15_NegativeQuantityRejected ==
    /\ (request.op = "create_invoice" /\ HasNegativeQuantity(request.arg.products))
           => response.status # 200
    /\ \A invoice \in Stored : ~HasNegativeQuantity(invoice.products)

NotFound == HttpError(404, "Invoice not found")

\* C16: delete_invoice(id) removes exactly the stored invoice with that id and
\* leaves every other invoice and every shop unchanged; with no such invoice
\* it answers 404 "Invoice not found" and leaves the store unchanged; so a
\* second delete of an id, and a get_invoice of it, answer 404.
C16_DeleteRemovesExactlyOne ==
    [][/\ request'.op = "delete_invoice" =>
              /\ shops' = shops
              /\ IF request'.arg \in StoredIds
                 THEN /\ response' = Ok("Invoice deleted successfully")
                      /\ StoredIds' = StoredIds \ {request'.arg}
                      /\ Len(invoices') = Len(invoices) - 1
                      /\ Stored' = {invoice \in Stored : invoice.id # request'.arg}
                 ELSE /\ response' = NotFound
                      /\ invoices' = invoices
       /\ (request'.op \in {"delete_invoice", "get_invoice"} /\ request'.arg \in removed)
              => response' = NotFound]_vars

\* the second delete of an id answered 404, another invoice and a shop in the store
C16_Witness ==
    /\ request.op = "delete_invoice"
    /\ request.arg \in removed
    /\ response = NotFound
    /\ invoices # <<>>
    /\ shops # <<>>

-----------------------------------------------------------------------------
(* Properties of the totals and the words together *)

Orderings(n) == {f \in [1..n -> 1..n] : \A i \in 1..n : \E j \in 1..n : f[j] = i}

Reordered(ps, f) == [i \in 1..Len(ps) |-> ps[f[i]]]

\* C17: the totals do not depend on the order of the line items: for every
\* sequence and every permutation of it the six returned fields are equal.
C17_OrderDoesNotMatter ==
    Returned =>
        \A f \in Orderings(Len(products)) :
            calculate_invoice_totals(Reordered(products, f)) = totals

\* C18: every stored invoice is self-consistent: its six totals are
\* calculate_invoice_totals of its own products, its amount_in_words is
\* number_to_words of its own final_amount.
C18_StoredInvoiceSelfConsistent ==
    \A invoice \in Stored :
        /\ totals_of[invoice.products] = Return(TotalsIn(invoice))
        /\ number_to_words(IntValue(invoice.final_amount))
               = Return(invoice.amount_in_words)

\* the scenario stored: 2242 and its words
C18_Witness ==
    \E invoice \in Stored :
        /\ invoice.products = <<ScenarioItem(18)>>
        /\ invoice.final_amount = 2242
        /\ invoice.amount_in_words =
               <<"Two", " ", "Thousand", " ", "Two", " ", "Hundred", " ",
                 "Forty", " ", "Two", " ", "Rupees", " ", "Only">>

\* C19: number_to_words is injective on the final amounts create_invoice
\* passes to it, negative ones included: two stored invoices with different
\* final_amount never carry the same amount_in_words.
C19_WordsInjective ==
    \A a \in Stored : \A b \in Stored :
        a.final_amount # b.final_amount => a.amount_in_words # b.amount_in_words

====
